---- MODULE Spec2Model ----
(***************************************************************************)
(* The LINE translation webhook of line-bot-final-test, in its three       *)
(* deployed variants:                                                      *)
(*   "index"   : src/api/index.py  (hand-written verification and loop)    *)
(*   "api_app" : src/api/app.py    (line-bot SDK, lazy initialisation)     *)
(*   "app"     : src/app.py        (line-bot SDK, initialised at import)   *)
(* A text is a sequence of characters.  The flag emoji U+1F1F9 U+1F1ED     *)
(* (Thailand) and U+1F1E8 U+1F1F3 (China) are one character each, and each *)
(* fixed fallback sentence of the code is one character (a Han string).    *)
(***************************************************************************)
EXTENDS Integers, Sequences, FiniteSets, TLC

\* ---------------------------------------------------------------- bounds
MaxTextLen == 2
MaxEvents == 2

\* ------------------------------------------------------------ characters
None == "None"
FLAG_TH == "FLAG_TH"
FLAG_CN == "FLAG_CN"
THAI == "THAI_KO_KAI"
HAN == "HAN_NI"
SP == "SPACE"
COLON == "FULLWIDTH_COLON"

InChars == {FLAG_TH, FLAG_CN, THAI, HAN, SP}

\* U+0E00 and U+0E7F, the bounds of the Thai block
ThaiLo == 3584
ThaiHi == 3711

\* ord(char); a fallback sentence counts as its first (Han) character
Ord(c) ==
  CASE c = SP -> 32
    [] c = THAI -> 3585
    [] c = HAN -> 20320
    [] c = COLON -> 65306
    [] c = FLAG_TH -> 127481
    [] c = FLAG_CN -> 127464
    [] OTHER -> 32763

Texts == UNION {[1..n -> InChars] : n \in 0..MaxTextLen}

\* ------------------------------------------------- Python string methods
RECURSIVE lstrip(_)
lstrip(t) == IF t # <<>> /\ Head(t) = SP THEN lstrip(Tail(t)) ELSE t

RECURSIVE rstrip(_)
rstrip(t) ==
  IF t # <<>> /\ t[Len(t)] = SP THEN rstrip(SubSeq(t, 1, Len(t) - 1)) ELSE t

strip(t) == rstrip(lstrip(t))

startswith(t, p) == Len(t) >= Len(p) /\ SubSeq(t, 1, Len(p)) = p

contains(t, c) == \E i \in 1..Len(t) : t[i] = c

\* t.split(c, 1)[1] for a text t that contains c
RECURSIVE split_after(_, _)
split_after(t, c) == IF Head(t) = c THEN Tail(t) ELSE split_after(Tail(t), c)

\* bool(x) of a str or None
truthy(s) == s # None /\ s # ""

\* faulty variant: only the Thai flag is looked for
starts_with_flag_th_only(t) == startswith(t, <<FLAG_TH>>)

\* text.startswith(FLAG_TH) or text.startswith(FLAG_CN)
starts_with_flag(t) == startswith(t, <<FLAG_TH>>) \/ startswith(t, <<FLAG_CN>>)

\* any(U+0E00 <= char <= U+0E7F for char in text)
is_thai(t) == \E i \in 1..Len(t) : ThaiLo <= Ord(t[i]) /\ Ord(t[i]) <= ThaiHi

\* ------------------------------------------------------------------ state
VARIABLES
  variant,               \* which module serves /callback
  CHANNEL_SECRET,        \* os.environ.get('YOUR_CHANNEL_SECRET'), None if unset
  CHANNEL_ACCESS_TOKEN,
  LLM_API_KEY,
  LLM_API_URL,
  handler,               \* the WebhookHandler object of the SDK variants
  pc,                    \* "idle", "loop" (at the head of the event loop),
                         \* "body" (an event is bound, the loop body runs next),
                         \* "responded"
  request,               \* the request being served: signature header and body
  verifyResult,          \* what the Signature Verifier answered for it
  status,                \* HTTP status of the response, 0 while none is sent
  evIndex,               \* events of the payload attempted so far
  ev,                    \* the event bound last
  evResult,              \* what handling it did
  calls                  \* the requests sent to the two endpoints while
                         \* handling it, in the order sent

config == <<variant, CHANNEL_SECRET, CHANNEL_ACCESS_TOKEN, LLM_API_KEY, LLM_API_URL>>
vars == <<variant, CHANNEL_SECRET, CHANNEL_ACCESS_TOKEN, LLM_API_KEY, LLM_API_URL,
          handler, pc, request, verifyResult, status, evIndex, ev, evResult,
          calls>>

Variants == {"index", "api_app", "app"}
\* the keys a signature can have been made with
Secrets == {"s1", "s2"}
DummySecret == "dummy_secret_for_startup"

\* ------------------------------------------------------- request contents
\* A body: not JSON at all, JSON that is no object, an object without
\* "events", or an object with n events; wellFormed says that every event of
\* it is an object with the fields and field types of a webhook event.
Bodies ==
  {[kind |-> k, n |-> 0, wellFormed |-> TRUE] : k \in {"invalid", "notdict", "noevents"}}
  \cup {[kind |-> "events", n |-> n, wellFormed |-> TRUE] : n \in 0..MaxEvents}
  \cup {[kind |-> "events", n |-> n, wellFormed |-> FALSE] : n \in 1..MaxEvents}

OtherBody(b) == IF b.kind = "invalid" THEN [b EXCEPT !.kind = "notdict"]
                ELSE [b EXCEPT !.kind = "invalid"]

\* base64(HMAC-SHA256(key, body)): one value per key and body
sign(body, key) == [kind |-> "mac", key |-> key, body |-> body]

\* the X-Line-Signature header: missing, empty, or some string
Signatures(body) ==
  {[kind |-> k, key |-> "", body |-> body] : k \in {"missing", "empty", "garbage", "nonascii"}}
  \cup {sign(b, k) : b \in {body, OtherBody(body)}, k \in Secrets \cup {DummySecret}}

sig_truthy(sig) == sig.kind \notin {"missing", "empty"}

\* hmac.compare_digest(a, b) on str: TypeError unless both are ASCII
compare_digest(a, b) ==
  IF a.kind = "nonascii" \/ b.kind = "nonascii" THEN "raise"
  ELSE IF a = b THEN "true" ELSE "false"

\* faulty variant: the digests are not compared
verify_signature_any_signature(body, signature) ==
  IF ~truthy(CHANNEL_SECRET) THEN "false"
  ELSE IF ~sig_truthy(signature) THEN "false"
  ELSE "true"

\* faulty variant: no try/except around the comparison
verify_signature_no_except(body, signature) ==
  IF ~truthy(CHANNEL_SECRET) THEN "false"
  ELSE IF ~sig_truthy(signature) THEN "false"
  ELSE compare_digest(signature, sign(body, CHANNEL_SECRET))

\* src/api/index.py verify_signature: "true" or "false"
verify_signature(body, signature) ==
  IF ~truthy(CHANNEL_SECRET) THEN "false"
  ELSE IF ~sig_truthy(signature) THEN "false"
  ELSE LET expected_signature == sign(body, CHANNEL_SECRET)
           result == compare_digest(signature, expected_signature)
       IN IF result = "raise" THEN "false" ELSE result

\* SignatureValidator.validate of the SDK, on bytes
sdk_validate(secret, body, signature) == signature = sign(body, secret)

\* ------------------------------------------------------ translation client
\* What the completion endpoint does with the one POST: no answer in time, a
\* network error, a status that is not 200, a body that is not JSON (a
\* ValueError, or requests' JSONDecodeError, a RequestException), JSON of
\* another shape, or a completion whose content is c.
Contents(text) ==
  {<<HAN>>, <<>>, <<SP>>, text \o <<COLON>>, text \o <<COLON, SP, HAN>>}

LlmFailures == {"timeout", "neterror", "status", "badjson", "badjson_req", "badshape"}

LlmOutcomes(text) ==
  {[kind |-> k, content |-> <<>>] : k \in LlmFailures}
  \cup {[kind |-> "ok", content |-> c] : c \in Contents(text)}

Translation(http, class, result) == [http |-> http, class |-> class, result |-> result]

\* src/api/index.py translate_text, the endpoint answering o
translate_text(text, target_lang, o) ==
  IF ~truthy(LLM_API_KEY) THEN Translation(FALSE, "nokey", <<"FB_API_KEY_UNSET">>)
  ELSE IF ~truthy(LLM_API_URL) THEN Translation(FALSE, "nourl", <<"FB_API_URL_UNSET">>)
  ELSE CASE o.kind = "timeout" -> Translation(TRUE, "timeout", <<"FB_TIMEOUT">>)
         [] o.kind \in {"neterror", "badjson_req"} ->
              Translation(TRUE, o.kind, <<"FB_UNAVAILABLE">>)
         [] o.kind = "status" -> Translation(TRUE, "status", <<"FB_STATUS_CODE">>)
         [] o.kind \in {"badjson", "badshape"} ->
              Translation(TRUE, o.kind, <<"FB_FAILED">>)
         [] OTHER ->
              LET stripped == strip(o.content)
                  translated ==
                    IF contains(stripped, COLON) /\ startswith(stripped, text)
                    THEN strip(split_after(stripped, COLON))
                    ELSE stripped
              IN IF translated # <<>> THEN Translation(TRUE, "ok", translated)
                 ELSE Translation(TRUE, "empty", <<"FB_EMPTY_RESULT">>)

\* src/api/app.py call_translation_api
call_translation_api(text, target_lang, o) ==
  IF ~truthy(LLM_API_KEY) \/ ~truthy(LLM_API_URL)
  THEN Translation(FALSE, "noconfig", <<"FB_CONFIG_ERROR">>)
  ELSE CASE o.kind = "timeout" -> Translation(TRUE, "timeout", <<"FB_TIMEOUT">>)
         [] o.kind \in {"neterror", "status", "badjson_req"} ->
              Translation(TRUE, o.kind, <<"FB_UNAVAILABLE">>)
         [] o.kind \in {"badjson", "badshape"} ->
              Translation(TRUE, o.kind, <<"FB_FAILED">>)
         [] OTHER ->
              LET translated_text == strip(o.content)
              IN IF translated_text # <<>> THEN Translation(TRUE, "ok", translated_text)
                 ELSE Translation(TRUE, "empty", <<"FB_EMPTY_RESULT">>)

\* src/app.py call_your_llm_api_for_translation
call_your_llm_api_for_translation(text, target_lang, o) ==
  IF ~truthy(LLM_API_KEY) \/ ~truthy(LLM_API_URL)
  THEN Translation(FALSE, "noconfig", <<"FB_CONFIG_ERROR">>)
  ELSE IF o.kind # "ok" THEN Translation(TRUE, o.kind, <<"FB_SMALL_PROBLEM">>)
  ELSE LET translated_text == strip(o.content)
       IN Translation(TRUE, IF translated_text # <<>> THEN "ok" ELSE "empty",
                      translated_text)

\* -------------------------------------------------------- reply dispatcher
\* What the reply endpoint does with the one POST.
ReplyOutcomes == {"ok", "status", "exception"}

NoReply == [called |-> FALSE, token |-> "", text |-> <<>>, http |-> FALSE, ok |-> FALSE]

Reply(token, text, http, ok) ==
  [called |-> TRUE, token |-> token, text |-> text, http |-> http, ok |-> ok]

\* src/api/index.py send_reply
send_reply(reply_token, message, ro) ==
  IF ~truthy(CHANNEL_ACCESS_TOKEN) THEN Reply(reply_token, message, FALSE, FALSE)
  ELSE IF ~truthy(reply_token) THEN Reply(reply_token, message, FALSE, FALSE)
  ELSE Reply(reply_token, message, TRUE, ro = "ok")

\* MessagingApi.reply_message_with_http_info of the SDK; it raises on failure
\* and both callers catch that
reply_message_with_http_info(reply_token, text, ro) ==
  Reply(reply_token, text, TRUE, ro = "ok")

\* ------------------------------------------------------------------ events
Event(kind, text, replyToken, echo) ==
  [kind |-> kind, text |-> text, replyToken |-> replyToken, echo |-> echo]

NoEvent == Event("none", <<>>, "", FALSE)

\* text messages, messages of another type, events of another type
WellFormedEvents ==
  {Event("text", t, tok, FALSE) : t \in Texts, tok \in {"tok", ""}}
  \cup {Event("image", <<>>, "tok", FALSE), Event("follow", <<>>, "tok", FALSE)}

\* an event that is no JSON object, one whose "message" is no object, a text
\* message whose "text" is no string
MalformedEvents ==
  {Event(k, <<>>, "tok", FALSE) : k \in {"notdict", "badmessage", "badtext"}}

EventsOf(body) ==
  IF body.wellFormed THEN WellFormedEvents ELSE WellFormedEvents \cup MalformedEvents

\* what handling one event did
NoTranslate ==
  [called |-> FALSE, text |-> <<>>, target |-> "", http |-> FALSE, class |-> "",
   result |-> <<>>]

Translate(text, target, t) ==
  [called |-> TRUE, text |-> text, target |-> target, http |-> t.http,
   class |-> t.class, result |-> t.result]

Result(raised, skipped, detected, translate, reply) ==
  [raised |-> raised, skipped |-> skipped, detected |-> detected,
   translate |-> translate, reply |-> reply]

Skipped == Result(FALSE, TRUE, "", NoTranslate, NoReply)
Raised == Result(TRUE, FALSE, "", NoTranslate, NoReply)
NoResult == Result(FALSE, FALSE, "", NoTranslate, NoReply)

\* faulty variant: the two language codes exchanged
target_lang_swapped(thai) == IF thai THEN "th" ELSE "zh"

\* target_lang = "zh" if is_thai else "th"
target_lang(thai) == IF thai THEN "zh" ELSE "th"

detected_lang(thai) == IF thai THEN "thai" ELSE "other"

\* faulty variant: the flag of the language detected
reply_text_source_flag(thai, translated) ==
  IF thai THEN <<FLAG_TH, SP>> \o translated ELSE <<FLAG_CN, SP>> \o translated

\* reply_text = f"{FLAG_CN} {translated}" if is_thai else f"{FLAG_TH} {translated}"
reply_text(thai, translated) ==
  IF thai THEN <<FLAG_CN, SP>> \o translated ELSE <<FLAG_TH, SP>> \o translated

\* faulty variant: the text is not stripped
index_event_no_strip(e, o, ro) ==
  CASE e.kind \in {"notdict", "badmessage", "badtext"} -> Raised
    [] e.kind \in {"follow", "image"} -> Skipped
    [] OTHER ->
         IF e.text = <<>> THEN Skipped
         ELSE IF ~truthy(e.replyToken) THEN Skipped
         ELSE IF starts_with_flag(e.text) THEN Skipped
         ELSE LET thai == is_thai(e.text)
                  translated == translate_text(e.text, target_lang(thai), o)
              IN Result(FALSE, FALSE, detected_lang(thai),
                        Translate(e.text, target_lang(thai), translated),
                        send_reply(e.replyToken,
                                   reply_text(thai, translated.result), ro))

\* src/api/index.py callback: the body of "for i, event in enumerate(events, 1)"
index_event(e, o, ro) ==
  CASE e.kind \in {"notdict", "badmessage", "badtext"} -> Raised
    [] e.kind \in {"follow", "image"} -> Skipped
    [] OTHER ->
         LET text == strip(e.text)
             reply_token == e.replyToken
         IN IF text = <<>> THEN Skipped
            ELSE IF ~truthy(reply_token) THEN Skipped
            ELSE IF starts_with_flag(text) THEN Skipped
            ELSE LET thai == is_thai(text)
                     target == target_lang(thai)
                     translated == translate_text(text, target, o)
                 IN Result(FALSE, FALSE, detected_lang(thai),
                           Translate(text, target, translated),
                           send_reply(reply_token,
                                      reply_text(thai, translated.result), ro))

\* src/api/app.py handle_text_message
api_app_handle_text_message(e, o, ro) ==
  LET original_text == strip(e.text)
  IN IF starts_with_flag(original_text) THEN Skipped
     ELSE LET thai == is_thai(original_text)
              target == target_lang(thai)
              translated == call_translation_api(original_text, target, o)
          IN Result(FALSE, FALSE, detected_lang(thai),
                    Translate(original_text, target, translated),
                    reply_message_with_http_info(
                      e.replyToken, reply_text(thai, translated.result), ro))

\* src/app.py handle_text_message (configuration is always set: the access
\* token or the start-up dummy)
app_handle_text_message(e, o, ro) ==
  LET original_text == e.text
  IN IF starts_with_flag(original_text) THEN Skipped
     ELSE LET thai == is_thai(original_text)
              target == target_lang(thai)
              translated == call_your_llm_api_for_translation(original_text, target, o)
          IN Result(FALSE, FALSE, detected_lang(thai),
                    Translate(original_text, target, translated),
                    IF translated.result # <<>>
                    THEN reply_message_with_http_info(
                           e.replyToken, reply_text(thai, translated.result), ro)
                    ELSE NoReply)

\* --------------------------------------------------------- the SDK handler
NoHandler == [created |-> FALSE, secret |-> "", registered |-> FALSE]

\* WebhookHandler(channel_secret): a handler with no function added to it
WebhookHandler(channel_secret) ==
  [created |-> TRUE, secret |-> channel_secret, registered |-> FALSE]

\* src/api/app.py register_handlers, and the @handler.add of src/app.py
register_handlers(h) == IF ~h.created THEN h ELSE [h EXCEPT !.registered = TRUE]

\* src/api/app.py initialize_line_bot: whether it succeeded, and the handler
initialize_line_bot ==
  IF ~truthy(CHANNEL_SECRET) THEN [ok |-> FALSE, handler |-> handler]
  ELSE IF ~truthy(CHANNEL_ACCESS_TOKEN) THEN [ok |-> FALSE, handler |-> handler]
  ELSE [ok |-> TRUE, handler |-> WebhookHandler(CHANNEL_SECRET)]

\* handler.handle(body, signature) up to its dispatch loop: the signature is
\* validated, then the body is decoded and every event of it is built
sdk_parse(h, body, signature) ==
  IF ~sdk_validate(h.secret, body, signature) THEN "InvalidSignatureError"
  ELSE IF body.kind # "events" \/ ~body.wellFormed THEN "Exception"
  ELSE "ok"

\* handler.handle: the function added for text messages, if any, is invoked
sdk_dispatch(h, e, o, ro) ==
  IF e.kind = "text" /\ h.registered
  THEN IF variant = "app" THEN app_handle_text_message(e, o, ro)
       ELSE api_app_handle_text_message(e, o, ro)
  ELSE Skipped

\* ----------------------------------------------------- the three callbacks
\* What a callback did before its event loop: the status it answered with (0
\* if it went on to the events), the verifier's answer, the handler object.
Entry(st, verified, h) == [status |-> st, verified |-> verified, handler |-> h]

\* len(events) of a decoded body; webhook_data.get('events', [])
events_len(body) == IF body.kind = "events" THEN body.n ELSE 0

\* src/api/index.py callback, to the start of its loop
index_callback(body, signature) ==
  IF ~sig_truthy(signature) THEN Entry(400, "none", handler)
  ELSE LET v == verify_signature(body, signature)
       IN IF v = "raise" THEN Entry(500, v, handler)
          ELSE IF v # "true" THEN Entry(403, v, handler)
          ELSE IF body.kind = "invalid" THEN Entry(400, v, handler)
          ELSE IF body.kind = "notdict" THEN Entry(500, v, handler)
          ELSE Entry(0, v, handler)

\* the try block around handler.handle(body, signature), in both SDK variants
sdk_handle(h, body, signature) ==
  LET p == sdk_parse(h, body, signature)
  IN IF p = "InvalidSignatureError" THEN Entry(400, "false", h)
     ELSE IF p = "Exception" THEN Entry(500, "true", h)
     ELSE Entry(0, "true", h)

\* src/api/app.py callback, to the dispatch loop of handler.handle
api_app_callback(body, signature) ==
  LET init == IF ~handler.created THEN initialize_line_bot
              ELSE [ok |-> TRUE, handler |-> handler]
  IN IF ~init.ok THEN Entry(500, "none", init.handler)
     ELSE IF ~sig_truthy(signature) THEN Entry(400, "none", init.handler)
     ELSE sdk_handle(init.handler, body, signature)

\* src/app.py callback, to the dispatch loop of handler.handle
app_callback(body, signature) ==
  IF ~handler.created THEN Entry(500, "none", handler)
  ELSE IF ~sig_truthy(signature) THEN Entry(400, "none", handler)
  ELSE sdk_handle(handler, body, signature)

\* ---------------------------------------------------------------- actions
NoBody == [kind |-> "invalid", n |-> 0, wellFormed |-> TRUE]
NoRequest == [signature |-> [kind |-> "missing", key |-> "", body |-> NoBody],
              body |-> NoBody]

Init ==
  /\ variant \in Variants
  /\ CHANNEL_SECRET \in {None, "s1"}
  /\ CHANNEL_ACCESS_TOKEN \in {None, "token"}
  /\ LLM_API_KEY \in {None, "key"}
  /\ LLM_API_URL \in {None, "url"}
  /\ handler = IF variant = "app"
               THEN register_handlers(
                      WebhookHandler(IF truthy(CHANNEL_SECRET) THEN CHANNEL_SECRET
                                     ELSE DummySecret))
               ELSE register_handlers(NoHandler)
  /\ pc = "idle"
  /\ request = NoRequest
  /\ verifyResult = "none"
  /\ status = 0
  /\ evIndex = 0
  /\ ev = NoEvent
  /\ evResult = NoResult
  /\ calls = <<>>

Enter(r, body, signature) ==
  /\ request' = [signature |-> signature, body |-> body]
  /\ handler' = r.handler
  /\ verifyResult' = r.verified
  /\ status' = r.status
  /\ pc' = IF r.status = 0 THEN "loop" ELSE "responded"
  /\ UNCHANGED <<config, evIndex, ev, evResult, calls>>

IndexCallback ==
  /\ pc = "idle" /\ variant = "index"
  /\ \E body \in Bodies : \E signature \in Signatures(body) :
       Enter(index_callback(body, signature), body, signature)

ApiAppCallback ==
  /\ pc = "idle" /\ variant = "api_app"
  /\ \E body \in Bodies : \E signature \in Signatures(body) :
       Enter(api_app_callback(body, signature), body, signature)

AppCallback ==
  /\ pc = "idle" /\ variant = "app"
  /\ \E body \in Bodies : \E signature \in Signatures(body) :
       Enter(app_callback(body, signature), body, signature)

\* The events the next position of the payload can hold: any event, or the
\* text of a reply the bot has just delivered come back as a message (the
\* process keeps nothing from one event or request to the next, so where the
\* reply comes back makes no difference), or that message delivered again.
InboundEvents(body) ==
  EventsOf(body)
  \cup (IF evResult.reply.http /\ evResult.reply.ok
        THEN {Event("text", evResult.reply.text, "tok", TRUE)} ELSE {})
  \cup (IF ev.echo THEN {ev} ELSE {})

\* "for i, event in enumerate(events, 1)", and "for event in payload.events"
\* of handler.handle: the next event of the payload is bound
FetchEvent ==
  /\ pc = "loop"
  /\ evIndex < events_len(request.body)
  /\ \E e \in InboundEvents(request.body) : ev' = e
  /\ evResult' = NoResult
  /\ calls' = <<>>
  /\ pc' = "body"
  /\ UNCHANGED <<config, handler, request, verifyResult, status, evIndex>>

\* faulty variant: a reply that failed is posted once more
endpoint_calls_retry(r) ==
  (IF r.translate.http THEN <<[endpoint |-> "completion", token |-> ""]>> ELSE <<>>)
  \o (IF r.reply.http THEN <<[endpoint |-> "reply", token |-> r.reply.token]>> ELSE <<>>)
  \o (IF r.reply.http /\ ~r.reply.ok
      THEN <<[endpoint |-> "reply", token |-> r.reply.token]>> ELSE <<>>)

\* The requests.post of translate_text, then the requests.post of send_reply
\* (the SDK's reply request in the other variants): each is in straight-line
\* code, sent if its guards let it through, and the translation is called
\* before the reply is built.
endpoint_calls(r) ==
  (IF r.translate.http THEN <<[endpoint |-> "completion", token |-> ""]>> ELSE <<>>)
  \o (IF r.reply.http THEN <<[endpoint |-> "reply", token |-> r.reply.token]>> ELSE <<>>)

Step(r) ==
  /\ evResult' = r
  /\ calls' = endpoint_calls(r)
  /\ evIndex' = evIndex + 1
  /\ status' = IF r.raised THEN 500 ELSE status
  /\ pc' = IF r.raised THEN "responded" ELSE "loop"
  /\ UNCHANGED <<config, handler, request, verifyResult, ev>>

\* An endpoint answers only a call that is made: the outcomes to try for an
\* event whose handling, with r0 the result under some outcome, made the calls
\* of r0.
SomeLlmOutcome == [kind |-> "ok", content |-> <<HAN>>]

LlmOutcomesFor(r0) ==
  IF r0.translate.http THEN LlmOutcomes(r0.translate.text) ELSE {SomeLlmOutcome}

ReplyOutcomesFor(r0) == IF r0.translate.called THEN ReplyOutcomes ELSE {"ok"}

\* the body of the loop of src/api/index.py callback, for the event bound
IndexEvent ==
  /\ pc = "body" /\ variant = "index"
  /\ LET r0 == index_event(ev, SomeLlmOutcome, "ok")
     IN \E o \in LlmOutcomesFor(r0) : \E ro \in ReplyOutcomesFor(r0) :
          Step(index_event(ev, o, ro))

\* the body of the dispatch loop of handler.handle, for the event bound
SdkEvent ==
  /\ pc = "body" /\ variant # "index"
  /\ LET r0 == sdk_dispatch(handler, ev, SomeLlmOutcome, "ok")
     IN \E o \in LlmOutcomesFor(r0) : \E ro \in ReplyOutcomesFor(r0) :
          Step(sdk_dispatch(handler, ev, o, ro))

\* return 'OK', 200 after the loop
Respond ==
  /\ pc = "loop"
  /\ evIndex = events_len(request.body)
  /\ status' = 200
  /\ pc' = "responded"
  /\ UNCHANGED <<config, handler, request, verifyResult, evIndex, ev, evResult,
                 calls>>

\* the request is over; the process waits for the next one
NextRequest ==
  /\ pc = "responded"
  /\ pc' = "idle"
  /\ request' = NoRequest
  /\ verifyResult' = "none"
  /\ status' = 0
  /\ evIndex' = 0
  /\ ev' = NoEvent
  /\ evResult' = NoResult
  /\ calls' = <<>>
  /\ UNCHANGED <<config, handler>>

Next ==
  \/ IndexCallback
  \/ ApiAppCallback
  \/ AppCallback
  \/ FetchEvent
  \/ IndexEvent
  \/ SdkEvent
  \/ Respond
  \/ NextRequest

Spec == Init /\ [][Next]_vars

\* ------------------------------------------------- vocabulary of the claims
\* The event bound last has been handled.
Handled == pc \in {"loop", "responded"} /\ ev.kind # "none"

\* A request is being served, or has just been answered.
InRequest == pc # "idle"

\* t without its leading and trailing whitespace
Trimmed(t) ==
  LET keep == {i \in 1..Len(t) : t[i] # SP}
  IN IF keep = {} THEN <<>>
     ELSE SubSeq(t, CHOOSE i \in keep : \A j \in keep : i <= j,
                    CHOOSE i \in keep : \A j \in keep : i >= j)

BeginsWithFlag(t) == Len(t) > 0 /\ t[1] \in {FLAG_TH, FLAG_CN}

HasThaiChar(t) == \E i \in 1..Len(t) : t[i] = THAI

NoCallMade == ~evResult.translate.called /\ ~evResult.reply.called

\* the signature header is the MAC of this body under the configured secret
GenuineSignature ==
  CHANNEL_SECRET # None /\ request.signature = sign(request.body, CHANNEL_SECRET)

\* C1: in src/api/index.py a request whose signature is not the one the
\* Signature Verifier accepts (the header missing or wrong, or the channel
\* secret unset) is answered at once with 400 or 403, and no event of its
\* payload is bound or handled: no translation call and no reply call is made
\* for it, whatever the body holds.
C1_RejectedAtBoundary ==
  (variant = "index" /\ InRequest /\ ~GenuineSignature) =>
    /\ pc = "responded" /\ status \in {400, 403}
    /\ verifyResult # "true"
    /\ evIndex = 0 /\ ev = NoEvent /\ NoCallMade

\* a payload of events signed with another secret is answered 403
C1_Witness ==
  /\ variant = "index" /\ pc = "responded" /\ status = 403
  /\ request.body.kind = "events" /\ request.body.n > 0
  /\ request.signature = sign(request.body, "s2")
  /\ CHANNEL_SECRET = "s1"

\* C2: a text message whose text begins with either flag is skipped whatever
\* follows the flag: no translation call, no reply call, and the request is
\* not failed by it. Every reply text dispatched begins with a flag, and a
\* reply that comes back as a message, once or again, is skipped too.
C2_LoopGuard ==
  Handled =>
    /\ (ev.kind = "text" /\ BeginsWithFlag(ev.text)) =>
         (evResult = Skipped /\ status \in {0, 200})
    /\ evResult.reply.called => BeginsWithFlag(evResult.reply.text)
    /\ ev.echo => (evResult = Skipped /\ status \in {0, 200})

\* a delivered reply came back as the last event of a payload: skipped, 200
C2_Witness ==
  /\ Handled /\ ev.echo /\ evResult = Skipped
  /\ pc = "responded" /\ status = 200

C4_LaterEventsAttempted ==
  ( /\ pc = "responded" /\ verifyResult = "true"
    /\ request.body.kind = "events" /\ evIndex > 0 )
    => evIndex = request.body.n

\* C5 (as claimed): translation never raises and never fails the request, and
\* on each of its failure paths a reply carrying the fallback text behind the
\* flag is dispatched.
C5_FallbackReplyAlways ==
  (Handled /\ evResult.translate.called) =>
    /\ ~evResult.raised
    /\ status \in {0, 200}
    /\ evResult.translate.class # "ok" =>
         /\ evResult.translate.result # <<>>
         /\ evResult.reply.called
         /\ evResult.reply.text =
              (IF evResult.detected = "thai" THEN <<FLAG_CN, SP>> ELSE <<FLAG_TH, SP>>)
              \o evResult.translate.result

\* C6 (as claimed): a request without the X-Line-Signature header is answered
\* 400 in every configuration, nothing of its body being parsed or handled.
C6_MissingSignature400 ==
  (InRequest /\ request.signature.kind = "missing") =>
    /\ pc = "responded" /\ status = 400
    /\ evIndex = 0 /\ ev = NoEvent /\ NoCallMade

\* C7 (as claimed): a validly signed request whose body is not JSON is
\* answered 400 and no event is handled.
C7_InvalidJson400 ==
  (InRequest /\ verifyResult = "true" /\ request.body.kind = "invalid") =>
    /\ pc = "responded" /\ status = 400
    /\ evIndex = 0 /\ ev = NoEvent /\ NoCallMade

\* C8: verify_signature answers true for the signature made of the body with
\* the configured secret, false for one made with another secret or of another
\* body, false when the secret is unset or the comparison fails, and never
\* raises.
C8_VerifySound ==
  (variant = "index" /\ InRequest /\ verifyResult # "none") =>
    /\ verifyResult \in {"true", "false"}
    /\ \A S \in Secrets \cup {DummySecret} :
         request.signature = sign(request.body, S) =>
           (verifyResult = "true" <=> CHANNEL_SECRET = S)
    /\ (verifyResult = "true" =>
          (CHANNEL_SECRET # None /\ request.signature.kind = "mac"
           /\ request.signature.body = request.body))

\* the body signed with s2 while the secret is s1: false
C8_Witness ==
  /\ variant = "index" /\ InRequest /\ verifyResult = "false"
  /\ CHANNEL_SECRET = "s1"
  /\ request.signature = sign(request.body, "s2")

FlagOfLanguage(lang) == IF lang \in {"th", "thai"} THEN FLAG_TH ELSE FLAG_CN

\* C9 (as claimed): the reply is prefixed with the flag of the language
\* detected.
C9_SourceFlag ==
  (Handled /\ evResult.reply.called) =>
    evResult.reply.text[1] =
      FlagOfLanguage(IF evResult.detected = "thai" THEN "thai" ELSE "zh")

\* C9 (amended): the reply is prefixed with the flag of the target language,
\* the Chinese flag for a text detected as Thai and the Thai flag otherwise,
\* and a space.
C9_TargetFlag ==
  (Handled /\ evResult.reply.called) =>
    /\ evResult.reply.text[1] = FlagOfLanguage(evResult.translate.target)
    /\ evResult.reply.text[1] = (IF evResult.detected = "thai" THEN FLAG_CN ELSE FLAG_TH)
    /\ evResult.reply.text[2] = SP

\* a text detected as Thai was replied to behind the Chinese flag
C9_Witness ==
  /\ Handled /\ evResult.detected = "thai" /\ evResult.reply.called
  /\ evResult.reply.text[1] = FLAG_CN

\* the skip conditions of the claim, on the text as received and as trimmed
SkipAsReceived(e) ==
  e.kind # "text" \/ e.text = <<>> \/ e.replyToken = "" \/ BeginsWithFlag(e.text)

SkipAsTrimmed(e) ==
  \/ e.kind # "text" \/ Trimmed(e.text) = <<>> \/ e.replyToken = ""
  \/ BeginsWithFlag(Trimmed(e.text))

Processed == evResult.detected # "" /\ evResult.translate.called /\ evResult.reply.called

\* C10 (as claimed), of src/api/index.py: an event is skipped only under the
\* four conditions taken on the text as received, and every other text message
\* is detected, translated and replied to.
C10_SkipAsReceived ==
  (variant = "index" /\ Handled) =>
    /\ evResult.skipped => SkipAsReceived(ev)
    /\ (ev.kind = "text" /\ ~SkipAsReceived(ev)) => Processed

\* C10 (amended), of src/api/index.py: the text is trimmed first. A well-formed
\* event is skipped exactly if it is no text message, or its trimmed text is
\* empty, or its reply token is empty, or its trimmed text begins with a flag;
\* every other text message is detected, translated and replied to.
C10_SkipAsTrimmed ==
  (variant = "index" /\ Handled /\ ev.kind \in {"text", "image", "follow"}) =>
    /\ evResult.skipped <=> SkipAsTrimmed(ev)
    /\ ~SkipAsTrimmed(ev) => Processed
    /\ evResult.skipped => NoCallMade

\* whitespace and then a flag: skipped
C10_Witness ==
  /\ variant = "index" /\ Handled
  /\ ev.text = <<SP, FLAG_TH>> /\ ev.replyToken = "tok"
  /\ evResult = Skipped

\* how many requests of the log went to an endpoint
CallsTo(endpoint) == Cardinality({i \in 1..Len(calls) : calls[i].endpoint = endpoint})

Configured(x) == x \notin {None, ""}

\* C11 (as claimed): for every event that is translated, in every
\* configuration, exactly one request goes to the completion endpoint and then
\* exactly one, carrying the event's reply token, to the reply endpoint.
C11_ExactlyOnceEach ==
  (Handled /\ evResult.translate.called) =>
    calls = << [endpoint |-> "completion", token |-> ""],
               [endpoint |-> "reply", token |-> ev.replyToken] >>

\* C11 (amended): no request is ever repeated and a completion request comes
\* before the reply request: at most one of each per event, the reply one
\* carrying the event's reply token, and none for a skipped event. In
\* src/api/index.py an event that is not skipped has exactly one completion
\* request if the key and the URL are set and none otherwise, and exactly one
\* reply request if the access token is set and none otherwise, whatever the
\* outcome of either.
C11_AtMostOnceEach ==
  Handled =>
    /\ CallsTo("completion") <= 1 /\ CallsTo("reply") <= 1
    /\ Len(calls) = CallsTo("completion") + CallsTo("reply")
    /\ (Len(calls) = 2 => calls[1].endpoint = "completion")
    /\ \A i \in 1..Len(calls) :
         calls[i].endpoint = "reply" => calls[i].token = ev.replyToken
    /\ (evResult.skipped \/ evResult.raised) => calls = <<>>
    /\ (variant = "index" /\ evResult.translate.called) =>
         /\ CallsTo("completion") =
              (IF Configured(LLM_API_KEY) /\ Configured(LLM_API_URL) THEN 1 ELSE 0)
         /\ CallsTo("reply") = (IF Configured(CHANNEL_ACCESS_TOKEN) THEN 1 ELSE 0)

\* the completion endpoint timed out and the reply endpoint refused: one
\* request each, none repeated
C11_Witness ==
  /\ Handled /\ variant = "index"
  /\ evResult.translate.class = "timeout"
  /\ evResult.reply.http /\ ~evResult.reply.ok
  /\ Len(calls) = 2

\* C12 (as claimed): the handler object src/api/app.py's callback uses has
\* handle_text_message added to it, so a validly signed text message that does
\* not begin with a flag is translated and replied to.
C12_HandlerRegistered ==
  /\ (variant = "api_app" /\ handler.created) => handler.registered
  /\ ( /\ variant = "api_app" /\ Handled /\ ev.kind = "text"
       /\ ~BeginsWithFlag(Trimmed(ev.text)) )
     => (evResult.translate.called /\ evResult.reply.called)

====
